---- MODULE Spec2Model ----
(***************************************************************************)
(* Model of src/main_multiprocessing.py: PDFExtractor.extract_pdf_pages    *)
(* (the orchestrator) and PDFExtractor._extract_single_page (the per-page  *)
(* task run by the workers of a multiprocessing.Pool).                     *)
(*                                                                         *)
(* One behaviour is one call of extract_pdf_pages.  The arguments of the   *)
(* call and the environment (the file system, the document, the number of  *)
(* processing units) are chosen in Init.  Every library call that can      *)
(* raise is a nondeterministic choice between its success and its failure. *)
(***************************************************************************)
EXTENDS Integers, Sequences, FiniteSets

\* ---------------------------------------------------------------- bounds

\* Largest page count of a document.
MaxPages == 3
\* Largest max_workers a caller passes explicitly.
MaxWorkersArg == 2

\* ------------------------------------------------------------- constants

\* min(32, ...) at line 119.
MaxDefaultWorkers == 32
\* max(1, ...) at line 119.
MinDefaultWorkers == 1

\* An optional argument left at its default None, and one that was passed.
NoArg == <<>>
Arg(x) == <<x>>

\* multiprocessing.cpu_count() on the machines considered.
CpuCounts == {1, 64}

\* The pdf_path arguments: a file name with no directory part.
PdfPaths == { [dir |-> "", stem |-> "doc", ext |-> ".pdf"] }
\* The output_dir arguments.
OutputDirs == {NoArg, Arg("out")}

\* What a call of _extract_single_page hands back through the pool: a path
\* (line 67), None (line 71), or, were the exception to escape, the exception.
\* Pending is a slot of pool.map's result list that no worker has filled yet.
NoPath == [dir |-> "", name |-> <<>>]
Pending == [kind |-> "Pending", path |-> NoPath]
NoneResult == [kind |-> "None", path |-> NoPath]
Raised == [kind |-> "raised", path |-> NoPath]
PathResult(p) == [kind |-> "path", path |-> p]

VARIABLES
    call,             \* the arguments: [pdf_path, output_dir, extract_all, max_workers]
    env,              \* [exists, npages]: the file system and the document
    cpu_count,        \* what multiprocessing.cpu_count() returned, 0 before the call
    pc,               \* position of extract_pdf_pages
    error,            \* the exception extract_pdf_pages raised, or "None"
    made,             \* directories os.makedirs created or found
    output_dir,       \* the resolved directory (lines 100-101)
    base_filename,    \* line 105
    probe,            \* the page-count probe's handle: unopened, open, closed
    total_pages,      \* line 109
    pages_to_extract, \* line 112
    max_workers,      \* the effective worker count (lines 118-119)
    pool,             \* none, open, terminated
    tasks,            \* one record per call of _extract_single_page dispatched
    value,            \* pool.map's result list, filled by index
    writes,           \* the file writes performed: [path, by]
    extracted_images  \* the list the call returns

vars == <<call, env, cpu_count, pc, error, made, output_dir, base_filename, probe,
          total_pages, pages_to_extract, max_workers, pool, tasks, value,
          writes, extracted_images>>

\* ----------------------------------------------------------- pure helpers

Min(a, b) == IF a < b THEN a ELSE b
Max(a, b) == IF a > b THEN a ELSE b

DigitChars == <<"0", "1", "2", "3", "4", "5", "6", "7", "8", "9">>

\* str(n) of a natural number: its decimal digits, most significant first.
RECURSIVE Str(_)
Str(n) == IF n < 10 THEN <<DigitChars[n + 1]>>
          ELSE Append(Str(n \div 10), DigitChars[(n % 10) + 1])

\* os.path.join(output_dir, f"{base_filename}_page{page_num+1}.jpg"), lines 53-56.
OutputFilenameNoPage(dir, base, page_num) ==
    [dir |-> dir, name |-> <<base, "_page">> \o <<".jpg">>]

OutputFilename(dir, base, page_num) ==
    [dir |-> dir, name |-> <<base, "_page">> \o Str(page_num + 1) \o <<".jpg">>]

\* range(n) as a sequence: 0, 1, ..., n-1.
Range(n) == [i \in 1..n |-> i - 1]

\* Line 112.
SelectPagesFromOne(total, all) == IF all THEN [i \in 1..(total - 1) |-> i] ELSE <<0>>

SelectPagesInclusive(total, all) == IF all THEN Range(total + 1) ELSE <<0>>

SelectPages(total, all) == IF all THEN Range(total) ELSE <<0>>

\* Line 119.
DefaultWorkers(cpus) == Min(MaxDefaultWorkers, Max(MinDefaultWorkers, cpus))

\* Line 135: [img for img in extracted_images if img is not None].
FilterNone(imgs) == SelectSeq(imgs, LAMBDA img : img # NoneResult)

\* os.path.dirname(pdf_path) or '.', line 101.
DirnameOrDot(path) == IF path.dir = "" THEN "." ELSE path.dir

\* os.path.splitext(os.path.basename(pdf_path))[0], line 105.
BaseFilename(path) == path.stem

\* ------------------------------------------------------- the worker pool

\* The calls of _extract_single_page a worker is executing.
Running(ts) == {i \in DOMAIN ts : ts[i].pc \notin {"queued", "done"}}

\* Pool(processes=max_workers), line 131: a queued task starts only on an idle
\* worker, and there are max_workers workers.
WorkerAvailableAlways(ts, n) == TRUE

WorkerAvailable(ts, n) == Cardinality(Running(ts)) < n

\* pool.map stores the result of the i-th item at index i of its result list,
\* whatever the order in which the workers finish (line 132).
SetResultInCompletionOrder(val, i, r) ==
    LET free == {k \in DOMAIN val : val[k] = Pending}
        first == CHOOSE k \in free : \A m \in free : k <= m
    IN  [val EXCEPT ![first] = r]

SetResult(val, i, r) == [val EXCEPT ![i] = r]

\* pool.map returns once every item has its result (line 132).
MapReadyAny(val) == val = <<>> \/ \E i \in DOMAIN val : val[i] # Pending

MapReady(val) == \A i \in DOMAIN val : val[i] # Pending

\* except Exception as page_error: log it, return None (lines 69-71).
ExceptHandlerReraise(page_error) == Raised

ExceptHandler(page_error) == NoneResult

\* ------------------------------------------------------------------ Init

Init ==
    /\ call \in [pdf_path : PdfPaths, output_dir : OutputDirs,
                 extract_all : BOOLEAN,
                 max_workers : {NoArg} \cup {Arg(n) : n \in 0..MaxWorkersArg}]
    /\ env \in [exists : BOOLEAN, npages : 0..MaxPages]
    /\ cpu_count = 0
    /\ pc = "validate"
    /\ error = "None"
    /\ made = {}
    /\ output_dir = ""
    /\ base_filename = ""
    /\ probe = "unopened"
    /\ total_pages = 0
    /\ pages_to_extract = <<>>
    /\ max_workers = 0
    /\ pool = "none"
    /\ tasks = <<>>
    /\ value = <<>>
    /\ writes = {}
    /\ extracted_images = <<>>

\* ------------------------------------------------- extract_pdf_pages

\* raise: the exception leaves extract_pdf_pages.
Raise(exc) == pc' = "raised" /\ error' = exc

\* Lines 95-97.
ValidateSkipped ==
    /\ pc = "validate"
    /\ pc' = "makedirs"
    /\ UNCHANGED <<call, env, cpu_count, error, made, output_dir, base_filename, probe,
                   total_pages, pages_to_extract, max_workers, pool, tasks,
                   value, writes, extracted_images>>

Validate ==
    /\ pc = "validate"
    /\ IF ~env.exists
       THEN Raise("FileNotFoundError")
       ELSE pc' = "makedirs" /\ error' = error
    /\ UNCHANGED <<call, env, cpu_count, made, output_dir, base_filename, probe,
                   total_pages, pages_to_extract, max_workers, pool, tasks,
                   value, writes, extracted_images>>

\* Lines 100-105.  os.makedirs may raise OSError.
MakeDirs ==
    /\ pc = "makedirs"
    /\ output_dir' = IF call.output_dir = NoArg
                     THEN DirnameOrDot(call.pdf_path)
                     ELSE call.output_dir[1]
    /\ \E ok \in BOOLEAN :
         IF ok
         THEN /\ made' = made \cup {output_dir'}
              /\ base_filename' = BaseFilename(call.pdf_path)
              /\ pc' = "probe_open"
              /\ error' = error
         ELSE /\ Raise("OSError")
              /\ UNCHANGED <<made, base_filename>>
    /\ UNCHANGED <<call, env, cpu_count, probe, total_pages, pages_to_extract,
                   max_workers, pool, tasks, value, writes, extracted_images>>

\* Line 108.  PdfDocument(pdf_path) raises on a file it cannot open, and on a
\* missing file always.
ProbeOpen ==
    /\ pc = "probe_open"
    /\ \E ok \in (IF env.exists THEN BOOLEAN ELSE {FALSE}) :
         IF ok
         THEN probe' = "open" /\ pc' = "probe_len" /\ error' = error
         ELSE Raise("PdfiumError") /\ probe' = probe
    /\ UNCHANGED <<call, env, cpu_count, made, output_dir, base_filename, total_pages,
                   pages_to_extract, max_workers, pool, tasks, value, writes,
                   extracted_images>>

\* Line 109.
ProbeLen ==
    /\ pc = "probe_len"
    /\ total_pages' = env.npages
    /\ pc' = "probe_close"
    /\ UNCHANGED <<call, env, cpu_count, error, made, output_dir, base_filename, probe,
                   pages_to_extract, max_workers, pool, tasks, value, writes,
                   extracted_images>>

\* Line 110.
ProbeClose ==
    /\ pc = "probe_close"
    /\ probe' = "closed"
    /\ pc' = "select"
    /\ UNCHANGED <<call, env, cpu_count, error, made, output_dir, base_filename,
                   total_pages, pages_to_extract, max_workers, pool, tasks,
                   value, writes, extracted_images>>

\* Lines 112-119.
SelectAndSize ==
    /\ pc = "select"
    /\ pages_to_extract' = SelectPages(total_pages, call.extract_all)
    /\ IF call.max_workers = NoArg
       THEN \E n \in CpuCounts :
              cpu_count' = n /\ max_workers' = DefaultWorkers(n)
       ELSE cpu_count' = cpu_count /\ max_workers' = call.max_workers[1]
    /\ pc' = "pool"
    /\ UNCHANGED <<call, env, error, made, output_dir, base_filename, probe,
                   total_pages, pool, tasks, value, writes, extracted_images>>

\* Line 131: Pool(processes=max_workers) raises ValueError below one process.
CreatePool ==
    /\ pc = "pool"
    /\ IF max_workers < 1
       THEN Raise("ValueError") /\ pool' = pool
       ELSE pool' = "open" /\ pc' = "map" /\ error' = error
    /\ UNCHANGED <<call, env, cpu_count, made, output_dir, base_filename, probe,
                   total_pages, pages_to_extract, max_workers, tasks, value,
                   writes, extracted_images>>

\* Line 132, first half: pool.map queues one call of extract_func per item of
\* pages_to_extract and waits.
MapDispatch ==
    /\ pc = "map"
    /\ tasks' = [i \in DOMAIN pages_to_extract |->
                   [page_num |-> pages_to_extract[i], pc |-> "queued",
                    doc |-> "none", failed |-> FALSE]]
    /\ value' = [i \in DOMAIN pages_to_extract |-> Pending]
    /\ pc' = "waiting"
    /\ UNCHANGED <<call, env, cpu_count, error, made, output_dir, base_filename, probe,
                   total_pages, pages_to_extract, max_workers, pool, writes,
                   extracted_images>>

\* Line 132, second half, and the end of the with block: pool.map returns the
\* result list, or re-raises a task's exception; leaving the block terminates
\* the pool.
MapReturn ==
    /\ pc = "waiting"
    /\ MapReady(value)
    /\ pool' = "terminated"
    /\ IF \E i \in DOMAIN value : value[i] = Raised
       THEN Raise("PageError") /\ extracted_images' = extracted_images
       ELSE extracted_images' = value /\ pc' = "filter" /\ error' = error
    /\ UNCHANGED <<call, env, cpu_count, made, output_dir, base_filename, probe,
                   total_pages, pages_to_extract, max_workers, tasks, value,
                   writes>>

\* Lines 135-140.
FilterAndReturn ==
    /\ pc = "filter"
    /\ extracted_images' = FilterNone(extracted_images)
    /\ pc' = "returned"
    /\ UNCHANGED <<call, env, cpu_count, error, made, output_dir, base_filename, probe,
                   total_pages, pages_to_extract, max_workers, pool, tasks,
                   value, writes>>

\* ---------------------------------------------- _extract_single_page

\* A worker executes task i only while the pool lives.
InPool(i) == pc = "waiting" /\ pool = "open" /\ i \in DOMAIN tasks

\* The except clause, lines 69-71: the task ends with the handler's result.
\* It closes nothing: a document opened at line 46 stays open unless the
\* runtime finalises the object nobody refers to any more.
Fail(i, page_error) ==
    /\ \E d \in (IF tasks[i].doc = "open" THEN {"open", "closed"} ELSE {"none"}) :
         tasks' = [tasks EXCEPT ![i].pc = "done", ![i].failed = TRUE, ![i].doc = d]
    /\ value' = SetResult(value, i, ExceptHandler(page_error))

\* Line 46, on an idle worker.
OpenDocument(i) ==
    /\ InPool(i)
    /\ tasks[i].pc = "queued"
    /\ WorkerAvailable(tasks, max_workers)
    /\ \E ok \in BOOLEAN :
         IF ok
         THEN /\ tasks' = [tasks EXCEPT ![i].pc = "opened", ![i].doc = "open"]
              /\ value' = value
         ELSE Fail(i, "open")
    /\ UNCHANGED <<call, env, cpu_count, pc, error, made, output_dir, base_filename,
                   probe, total_pages, pages_to_extract, max_workers, pool,
                   writes, extracted_images>>

\* Line 49: pdfobj[page_num] raises IndexError past the last page.
GetPage(i) ==
    /\ InPool(i)
    /\ tasks[i].pc = "opened"
    /\ \E ok \in (IF tasks[i].page_num < env.npages THEN BOOLEAN ELSE {FALSE}) :
         IF ok
         THEN tasks' = [tasks EXCEPT ![i].pc = "page"] /\ value' = value
         ELSE Fail(i, "page")
    /\ UNCHANGED <<call, env, cpu_count, pc, error, made, output_dir, base_filename,
                   probe, total_pages, pages_to_extract, max_workers, pool,
                   writes, extracted_images>>

\* Line 50.
Render(i) ==
    /\ InPool(i)
    /\ tasks[i].pc = "page"
    /\ \E ok \in BOOLEAN :
         IF ok
         THEN tasks' = [tasks EXCEPT ![i].pc = "rendered"] /\ value' = value
         ELSE Fail(i, "render")
    /\ UNCHANGED <<call, env, cpu_count, pc, error, made, output_dir, base_filename,
                   probe, total_pages, pages_to_extract, max_workers, pool,
                   writes, extracted_images>>

\* Lines 53-59.
Save(i) ==
    /\ InPool(i)
    /\ tasks[i].pc = "rendered"
    /\ \E ok \in BOOLEAN :
         IF ok
         THEN /\ tasks' = [tasks EXCEPT ![i].pc = "saved"]
              /\ value' = value
              /\ writes' = writes \cup
                   {[path |-> OutputFilename(output_dir, base_filename,
                                             tasks[i].page_num),
                     by |-> i]}
         ELSE Fail(i, "save") /\ writes' = writes
    /\ UNCHANGED <<call, env, cpu_count, pc, error, made, output_dir, base_filename,
                   probe, total_pages, pages_to_extract, max_workers, pool,
                   extracted_images>>

\* Line 62.
ClosePage(i) ==
    /\ InPool(i)
    /\ tasks[i].pc = "saved"
    /\ \E ok \in BOOLEAN :
         IF ok
         THEN tasks' = [tasks EXCEPT ![i].pc = "page_closed"] /\ value' = value
         ELSE Fail(i, "page_close")
    /\ UNCHANGED <<call, env, cpu_count, pc, error, made, output_dir, base_filename,
                   probe, total_pages, pages_to_extract, max_workers, pool,
                   writes, extracted_images>>

\* Lines 63-67.
CloseDocumentAndReturn(i) ==
    /\ InPool(i)
    /\ tasks[i].pc = "page_closed"
    /\ \E ok \in BOOLEAN :
         IF ok
         THEN /\ tasks' = [tasks EXCEPT ![i].pc = "done", ![i].doc = "closed"]
              /\ value' = SetResult(value, i,
                   PathResult(OutputFilename(output_dir, base_filename,
                                             tasks[i].page_num)))
         ELSE Fail(i, "doc_close")
    /\ UNCHANGED <<call, env, cpu_count, pc, error, made, output_dir, base_filename,
                   probe, total_pages, pages_to_extract, max_workers, pool,
                   writes, extracted_images>>

\* -------------------------------------------------------- specification

Orchestrator ==
    \/ Validate
    \/ MakeDirs
    \/ ProbeOpen
    \/ ProbeLen
    \/ ProbeClose
    \/ SelectAndSize
    \/ CreatePool
    \/ MapDispatch
    \/ MapReturn
    \/ FilterAndReturn

TaskStep(i) ==
    \/ OpenDocument(i)
    \/ GetPage(i)
    \/ Render(i)
    \/ Save(i)
    \/ ClosePage(i)
    \/ CloseDocumentAndReturn(i)

Next == Orchestrator \/ \E i \in 1..(MaxPages + 1) : TaskStep(i)

Spec == Init /\ [][Next]_vars

\* The statements of extract_pdf_pages always proceed; a task proceeds under
\* the assumption that every dispatched task terminates.
FairSpec == Spec /\ WF_vars(Orchestrator)
                 /\ \A i \in 1..(MaxPages + 1) : WF_vars(TaskStep(i))

\* ------------------------------------------------------------ properties

\* How far the names of distinct pages are compared (C9): page numbers of
\* one and of two digits.
MaxIndexChecked == 11

Terminal == pc \in {"returned", "raised"}

\* pool.map has queued the tasks.
Dispatched == pc \in {"waiting", "filter", "returned"}

\* The path task i writes and returns.
PathOf(i) == OutputFilename(output_dir, base_filename, tasks[i].page_num)

ReturnedPaths == {extracted_images[k].path : k \in DOMAIN extracted_images}

WrittenPaths == {w.path : w \in writes}

\* The number a string of decimal digits denotes.
DigitValue(c) == CHOOSE d \in 0..9 : DigitChars[d + 1] = c

RECURSIVE ParseNat(_)
ParseNat(ds) == IF ds = <<>> THEN 0
                ELSE 10 * ParseNat(SubSeq(ds, 1, Len(ds) - 1))
                     + DigitValue(ds[Len(ds)])

\* The N of a file name base_pageN.jpg.
PageNumberOf(p) == ParseNat(SubSeq(p.name, 3, Len(p.name) - 1))

\* C1: whatever the order in which the tasks finish, every result lands in
\* the slot of its own page, and the returned list holds only paths, in
\* strictly ascending page number.
C1_PageOrder ==
    /\ pc = "waiting" =>
         \A i \in DOMAIN value :
            value[i].kind = "path" => value[i].path = PathOf(i)
    /\ pc = "returned" =>
         /\ \A k \in DOMAIN extracted_images : extracted_images[k].kind = "path"
         /\ \A a, b \in DOMAIN extracted_images :
              a < b => PageNumberOf(extracted_images[a].path)
                         < PageNumberOf(extracted_images[b].path)

\* A later page's task has handed back its path while an earlier page's task
\* has not finished.
C1_Witness ==
    /\ pc = "waiting"
    /\ call.extract_all
    /\ \E i, j \in DOMAIN value :
         i < j /\ value[i] = Pending /\ value[j].kind = "path"

\* C2: once the pool exists the call never raises; when it returns, every
\* dispatched task has run to its end and the returned list holds the path
\* of a selected page exactly if that page's task did not fail.
C2_FailureDoesNotAbort ==
    /\ pool # "none" => pc # "raised"
    /\ pc = "returned" =>
         \A i \in DOMAIN tasks :
            /\ tasks[i].pc = "done"
            /\ (PathOf(i) \in ReturnedPaths) <=> ~tasks[i].failed

\* The call returned although one page failed and another did not.
C2_Witness ==
    /\ pc = "returned"
    /\ \E i, j \in DOMAIN tasks : tasks[i].failed /\ ~tasks[j].failed

\* The call returned although every page of a document failed.
C2_WitnessAllFailed ==
    /\ pc = "returned"
    /\ Len(tasks) >= 2
    /\ \A i \in DOMAIN tasks : tasks[i].failed

\* C3: a task that has returned has no open document handle.
C3_HandleClosedOnReturn ==
    \A i \in DOMAIN tasks : tasks[i].pc = "done" => tasks[i].doc # "open"

\* C4: with a missing source file the call raises FileNotFoundError and has
\* done nothing else: no directory made, no probe, no pool, no task, no file.
C4_NotFoundBeforeAnything ==
    ~env.exists =>
        /\ pc \in {"validate", "raised"}
        /\ pc = "raised" => error = "FileNotFoundError"
        /\ made = {}
        /\ probe = "unopened"
        /\ pool = "none"
        /\ tasks = <<>>
        /\ writes = {}

C4_Witness == ~env.exists /\ pc = "raised" /\ error = "FileNotFoundError"

\* C5: the returned paths are exactly the paths of the files the tasks wrote.
C5_ReturnedIffWritten == pc = "returned" => ReturnedPaths = WrittenPaths

\* C6: the dispatched tasks are one for index 0 with extract_all false, one
\* for each of 0..total_pages-1 with extract_all true, and the returned list
\* is no longer than that.
C6_DispatchedIsSelection ==
    /\ ~Dispatched => tasks = <<>>
    /\ Dispatched =>
         /\ total_pages = env.npages
         /\ IF call.extract_all
            THEN /\ Len(tasks) = total_pages
                 /\ {tasks[i].page_num : i \in DOMAIN tasks} = 0..(total_pages - 1)
            ELSE /\ Len(tasks) = 1
                 /\ tasks[1].page_num = 0
         /\ Len(FilterNone(extracted_images))
              <= (IF call.extract_all THEN total_pages ELSE 1)

C6_Witness ==
    /\ pc = "returned"
    /\ call.extract_all
    /\ total_pages >= 2
    /\ Len(extracted_images) = total_pages

\* C7 as stated: every dispatched task has 0 <= page_index < total_pages.
C7_IndexInRange ==
    Dispatched =>
        \A i \in DOMAIN tasks :
           0 <= tasks[i].page_num /\ tasks[i].page_num < total_pages

\* C7 as amended: every dispatched task has 0 <= page_index < total_pages
\* unless the document has no page and extract_all is false.
C7_IndexInRangeAmended ==
    (Dispatched /\ (call.extract_all \/ total_pages >= 1)) =>
        \A i \in DOMAIN tasks :
           0 <= tasks[i].page_num /\ tasks[i].page_num < total_pages

C7_Witness ==
    /\ Dispatched
    /\ call.extract_all
    /\ total_pages >= 2
    /\ Len(tasks) = total_pages

AllTasksFinished ==
    \A i \in DOMAIN tasks : tasks[i].pc = "done" /\ value[i] # Pending

SlotsFilledOnce ==
    \A i \in DOMAIN value : value[i] # Pending => value'[i] = value[i]

NothingAfterMap ==
    pc \in {"filter", "returned"} =>
        (tasks' = tasks /\ value' = value /\ writes' = writes)

\* C8: the call goes on past pool.map only when every task has finished and
\* filled its slot; a filled slot is never filled again; nothing a task does
\* happens after that; and a call that has dispatched its tasks returns.
C8_ReturnsAfterAllTasks ==
    /\ [](pc \in {"filter", "returned"} => AllTasksFinished)
    /\ [][SlotsFilledOnce]_vars
    /\ [][NothingAfterMap]_vars
    /\ (pc = "waiting") ~> (pc = "returned")

C8_Witness ==
    /\ pc = "returned"
    /\ Len(tasks) >= 2
    /\ \E i \in DOMAIN tasks : tasks[i].failed

\* C9: every file has at most one writer: distinct tasks have distinct page
\* indices, the file a task writes is named base_page{page_index+1}.jpg, and
\* distinct page indices give distinct names.
C9_SingleWriter ==
    /\ \A v, w \in writes : v.path = w.path => v.by = w.by
    /\ \A i, j \in DOMAIN tasks :
         i # j => tasks[i].page_num # tasks[j].page_num
    /\ \A w \in writes :
         /\ w.path.dir = output_dir
         /\ w.path.name[1] = base_filename
         /\ w.path.name[2] = "_page"
         /\ w.path.name[Len(w.path.name)] = ".jpg"
         /\ PageNumberOf(w.path) = tasks[w.by].page_num + 1
    /\ pc = "map" =>
         \A m, n \in 0..MaxIndexChecked :
            m # n => OutputFilename(output_dir, base_filename, m)
                       # OutputFilename(output_dir, base_filename, n)

\* Two tasks have written their files and are still at work.
C9_Witness ==
    /\ pc = "waiting"
    /\ \E v, w \in writes :
         /\ v.by # w.by
         /\ tasks[v.by].pc # "done"
         /\ tasks[w.by].pc # "done"

====
